---------------------------- MODULE Spec2Model ----------------------------
(***************************************************************************)
(* Model of the face tracking and temporal smoothing engine,               *)
(* backend/services/face_tracker.py (class FaceTracker).                   *)
(*                                                                         *)
(* Representation                                                          *)
(*   - A Python dict with string keys (a detection, a history sample) is a *)
(*     function whose DOMAIN is the set of keys present; d.get(k, default) *)
(*     is Get(d, k, default).  A key whose value is None is left out:      *)
(*     update_tracks treats both alike.  An emotion dict, which the code   *)
(*     iterates, is the sequence of its items <<key, value>>.              *)
(*   - self.tracks, an insertion-ordered dict, is the sequence of its      *)
(*     (key, value) entries in insertion order: each entry is the track's  *)
(*     dict with its key in the field track_id.                            *)
(*   - A float is an exact rational <<n, d>> in lowest terms, d > 0 (the   *)
(*     rounding error of binary floating point is not modelled).  An age   *)
(*     is a number of tenths of a year, so that round(x, 1) yields an      *)
(*     integer: 205 stands for 20.5.                                       *)
(*   - A bounding box is the sequence <<x, y, w, h>>.                      *)
(***************************************************************************)
EXTENDS Integers, Sequences, FiniteSets, TLC

VARIABLES
    \* configuration, set by __init__ and never changed
    max_tracks, max_age_history, max_emotion_history, iou_threshold,
    max_missing_frames,
    \* the FaceTracker's state
    tracks, next_track_id, frame_count,
    \* the last update_tracks call: its argument, what it returned, the
    \* exception it raised ("None" when it returned), the pairs computed by
    \* match_faces_to_tracks, and the registry at loop entry and after each
    \* iteration of the loop over the matches
    faces, updated_faces, exc, matches, steps,
    \* history of the run: every track_id ever stored in the registry, and per
    \* live track_id every age / emotion sample ever appended, in order, and
    \* the frame of the last call that worked on a detection for it
    issued, age_arrivals, emotion_arrivals, last_matched,
    \* the last calculate_iou call made on its own: arguments and result
    box1, box2, iou

config_vars == <<max_tracks, max_age_history, max_emotion_history,
                 iou_threshold, max_missing_frames>>
tracker_vars == <<tracks, next_track_id, frame_count>>
call_vars == <<faces, updated_faces, exc, matches, steps>>
ghost_vars == <<issued, age_arrivals, emotion_arrivals, last_matched>>
iou_vars == <<box1, box2, iou>>
vars == <<config_vars, tracker_vars, call_vars, ghost_vars, iou_vars>>

---------------------------------------------------------------------------
(* Exact rational arithmetic standing for Python's float arithmetic.       *)

Abs(n) == IF n < 0 THEN -n ELSE n

RECURSIVE Gcd(_, _)
Gcd(a, b) == IF b = 0 THEN a ELSE Gcd(b, a % b)

\* n / d in lowest terms with a positive denominator (d # 0)
Rat(n, d) ==
    LET g == Gcd(Abs(n), Abs(d))
        s == IF d < 0 THEN -1 ELSE 1
    IN  <<(s * n) \div g, Abs(d) \div g>>

Zero == Rat(0, 1)
One == Rat(1, 1)
FromInt(n) == Rat(n, 1)

RAdd(a, b) == Rat(a[1] * b[2] + b[1] * a[2], a[2] * b[2])
RSub(a, b) == Rat(a[1] * b[2] - b[1] * a[2], a[2] * b[2])
RMul(a, b) == Rat(a[1] * b[1], a[2] * b[2])
\* a / b for b # 0
RDiv(a, b) == Rat(a[1] * b[2], a[2] * b[1])
RLt(a, b) == a[1] * b[2] < b[1] * a[2]

Max(a, b) == IF a >= b THEN a ELSE b
Min(a, b) == IF a <= b THEN a ELSE b

\* dict.get(key, default)
Get(d, key, default) == IF key \in DOMAIN d THEN d[key] ELSE default

---------------------------------------------------------------------------
(* calculate_iou                                                           *)

\* The default of face.get('bbox', [0, 0, 0, 0]) and track.get('last_bbox', ..)
DefaultBox == <<0, 0, 0, 0>>

\* calculate_iou with the union taken as the sum of the two areas
calculate_iou_sum_of_areas(b1, b2) ==
    IF Len(b1) # 4 \/ Len(b2) # 4 THEN Zero
    ELSE
    LET x_left == Max(b1[1], b2[1])
        y_top == Max(b1[2], b2[2])
        x_right == Min(b1[1] + b1[3], b2[1] + b2[3])
        y_bottom == Min(b1[2] + b1[4], b2[2] + b2[4])
        intersection == (x_right - x_left) * (y_bottom - y_top)
        union == b1[3] * b1[4] + b2[3] * b2[4]
    IN  IF x_right < x_left \/ y_bottom < y_top THEN Zero
        ELSE IF union = 0 THEN Zero
        ELSE Rat(intersection, union)

\* calculate_iou with the intersection measured in pixels inclusive of both
\* borders
calculate_iou_inclusive(b1, b2) ==
    IF Len(b1) # 4 \/ Len(b2) # 4 THEN Zero
    ELSE
    LET x_left == Max(b1[1], b2[1])
        y_top == Max(b1[2], b2[2])
        x_right == Min(b1[1] + b1[3], b2[1] + b2[3])
        y_bottom == Min(b1[2] + b1[4], b2[2] + b2[4])
        intersection == (x_right - x_left + 1) * (y_bottom - y_top + 1)
        union == b1[3] * b1[4] + b2[3] * b2[4] - intersection
    IN  IF x_right < x_left \/ y_bottom < y_top THEN Zero
        ELSE IF union = 0 THEN Zero
        ELSE Rat(intersection, union)

\* calculate_iou that first rewrites a box of negative width or height as the
\* rectangle it spans
calculate_iou_normalising(b1, b2) ==
    IF Len(b1) # 4 \/ Len(b2) # 4 THEN Zero
    ELSE
    LET x_left == Max(Min(b1[1], b1[1] + b1[3]), Min(b2[1], b2[1] + b2[3]))
        y_top == Max(Min(b1[2], b1[2] + b1[4]), Min(b2[2], b2[2] + b2[4]))
        x_right == Min(Max(b1[1], b1[1] + b1[3]), Max(b2[1], b2[1] + b2[3]))
        y_bottom == Min(Max(b1[2], b1[2] + b1[4]), Max(b2[2], b2[2] + b2[4]))
        intersection == (x_right - x_left) * (y_bottom - y_top)
        union == Abs(b1[3] * b1[4]) + Abs(b2[3] * b2[4]) - intersection
    IN  IF x_right < x_left \/ y_bottom < y_top THEN Zero
        ELSE IF union = 0 THEN Zero
        ELSE Rat(intersection, union)

\* Lines 58-89.  Unpacking a box that has not exactly four fields raises
\* ValueError, which the except clause turns into 0.0.
calculate_iou(b1, b2) ==
    IF Len(b1) # 4 \/ Len(b2) # 4 THEN Zero
    ELSE
    LET x1 == b1[1]  y1 == b1[2]  w1 == b1[3]  h1 == b1[4]
        x2 == b2[1]  y2 == b2[2]  w2 == b2[3]  h2 == b2[4]
        box1_coords == <<x1, y1, x1 + w1, y1 + h1>>
        box2_coords == <<x2, y2, x2 + w2, y2 + h2>>
        x_left == Max(box1_coords[1], box2_coords[1])
        y_top == Max(box1_coords[2], box2_coords[2])
        x_right == Min(box1_coords[3], box2_coords[3])
        y_bottom == Min(box1_coords[4], box2_coords[4])
        intersection == (x_right - x_left) * (y_bottom - y_top)
        area1 == w1 * h1
        area2 == w2 * h2
        union == area1 + area2 - intersection
    IN  IF x_right < x_left \/ y_bottom < y_top THEN Zero
        ELSE IF union = 0 THEN Zero
        ELSE Rat(intersection, union)

---------------------------------------------------------------------------
(* The registry: self.tracks as a sequence of entries in insertion order   *)

\* None, as the track_id of an unmatched detection (track ids are >= 0)
None == -1

\* list(self.tracks.keys())
Keys(trks) == [k \in 1..Len(trks) |-> trks[k].track_id]
KeySet(trks) == {trks[k].track_id : k \in 1..Len(trks)}

\* The position of key track_id in self.tracks
IndexOf(trks, track_id) ==
    CHOOSE k \in 1..Len(trks) : trks[k].track_id = track_id

\* self.tracks[track_id]
TrackOf(trks, track_id) == trks[IndexOf(trks, track_id)]

\* self.tracks[track_id] = value: a new key goes to the end, an existing key
\* keeps its place
SetTrack(trks, track_id, value) ==
    IF track_id \in KeySet(trks)
    THEN [trks EXCEPT ![IndexOf(trks, track_id)] = value]
    ELSE Append(trks, value)

---------------------------------------------------------------------------
(* match_faces_to_tracks                                                   *)

\* FindBestTrack without the test of used_track_ids
RECURSIVE FindBestTrackAmongAll(_, _, _, _, _, _)
FindBestTrackAmongAll(self, face_bbox, used_track_ids, k, best_track_id, best_iou) ==
    IF k > Len(self.tracks) THEN best_track_id
    ELSE
    LET i == calculate_iou(face_bbox, self.tracks[k].last_bbox)
    IN  IF RLt(best_iou, i) /\ RLt(iou_threshold, i)
        THEN FindBestTrackAmongAll(self, face_bbox, used_track_ids, k + 1,
                                   self.tracks[k].track_id, i)
        ELSE FindBestTrackAmongAll(self, face_bbox, used_track_ids, k + 1,
                                   best_track_id, best_iou)

\* FindBestTrack that stops at the first track no earlier detection claimed
RECURSIVE FindBestTrackFirstOnly(_, _, _, _, _, _)
FindBestTrackFirstOnly(self, face_bbox, used_track_ids, k, best_track_id, best_iou) ==
    IF k > Len(self.tracks) THEN best_track_id
    ELSE IF self.tracks[k].track_id \in used_track_ids
    THEN FindBestTrackFirstOnly(self, face_bbox, used_track_ids, k + 1,
                                best_track_id, best_iou)
    ELSE IF RLt(iou_threshold,
                calculate_iou(face_bbox, self.tracks[k].last_bbox))
    THEN self.tracks[k].track_id
    ELSE best_track_id

\* FindBestTrack that also accepts an overlap equal to the threshold
RECURSIVE FindBestTrackAtThreshold(_, _, _, _, _, _)
FindBestTrackAtThreshold(self, face_bbox, used_track_ids, k, best_track_id, best_iou) ==
    IF k > Len(self.tracks) THEN best_track_id
    ELSE
    LET i == calculate_iou(face_bbox, self.tracks[k].last_bbox)
    IN  IF self.tracks[k].track_id \in used_track_ids
        THEN FindBestTrackAtThreshold(self, face_bbox, used_track_ids, k + 1,
                                      best_track_id, best_iou)
        ELSE IF RLt(best_iou, i) /\ ~RLt(i, iou_threshold)
        THEN FindBestTrackAtThreshold(self, face_bbox, used_track_ids, k + 1,
                                      self.tracks[k].track_id, i)
        ELSE FindBestTrackAtThreshold(self, face_bbox, used_track_ids, k + 1,
                                      best_track_id, best_iou)

\* FindBestTrack that lets a later track of equal overlap replace the best
RECURSIVE FindBestTrackLastTie(_, _, _, _, _, _)
FindBestTrackLastTie(self, face_bbox, used_track_ids, k, best_track_id, best_iou) ==
    IF k > Len(self.tracks) THEN best_track_id
    ELSE
    LET i == calculate_iou(face_bbox, self.tracks[k].last_bbox)
    IN  IF self.tracks[k].track_id \in used_track_ids
        THEN FindBestTrackLastTie(self, face_bbox, used_track_ids, k + 1,
                                  best_track_id, best_iou)
        ELSE IF ~RLt(i, best_iou) /\ RLt(iou_threshold, i)
        THEN FindBestTrackLastTie(self, face_bbox, used_track_ids, k + 1,
                                  self.tracks[k].track_id, i)
        ELSE FindBestTrackLastTie(self, face_bbox, used_track_ids, k + 1,
                                  best_track_id, best_iou)

\* Lines 111-120: the inner loop over self.tracks.items(), from entry k on
RECURSIVE FindBestTrack(_, _, _, _, _, _)
FindBestTrack(self, face_bbox, used_track_ids, k, best_track_id, best_iou) ==
    IF k > Len(self.tracks) THEN best_track_id
    ELSE
    LET track == self.tracks[k]
        track_id == track.track_id
        track_bbox == Get(track, "last_bbox", DefaultBox)
        i == calculate_iou(face_bbox, track_bbox)
    IN  IF track_id \in used_track_ids
        THEN FindBestTrack(self, face_bbox, used_track_ids, k + 1,
                           best_track_id, best_iou)
        ELSE IF RLt(best_iou, i) /\ RLt(iou_threshold, i)
        THEN FindBestTrack(self, face_bbox, used_track_ids, k + 1, track_id, i)
        ELSE FindBestTrack(self, face_bbox, used_track_ids, k + 1,
                           best_track_id, best_iou)

\* The outer loop with a result that lists the matched detections only
RECURSIVE MatchLoopMatchedOnly(_, _, _, _, _)
MatchLoopMatchedOnly(self, fs, n, used_track_ids, acc) ==
    IF n > Len(fs) THEN acc
    ELSE
    LET face == fs[n]
        face_bbox == Get(face, "bbox", DefaultBox)
        best_track_id == FindBestTrack(self, face_bbox, used_track_ids, 1,
                                       None, Zero)
    IN  IF best_track_id # None
        THEN MatchLoopMatchedOnly(self, fs, n + 1,
                                  used_track_ids \cup {best_track_id},
                                  Append(acc, <<n - 1, best_track_id>>))
        ELSE MatchLoopMatchedOnly(self, fs, n + 1, used_track_ids, acc)

\* Lines 104-125: the outer loop, from face n (1-based; face_idx = n - 1) on
RECURSIVE MatchLoop(_, _, _, _, _)
MatchLoop(self, fs, n, used_track_ids, acc) ==
    IF n > Len(fs) THEN acc
    ELSE
    LET face == fs[n]
        face_bbox == Get(face, "bbox", DefaultBox)
        best_track_id == FindBestTrack(self, face_bbox, used_track_ids, 1,
                                       None, Zero)
        used == IF best_track_id # None
                THEN used_track_ids \cup {best_track_id}
                ELSE used_track_ids
    IN  MatchLoop(self, fs, n + 1, used, Append(acc, <<n - 1, best_track_id>>))

\* Lines 91-127
match_faces_to_tracks(self, fs) == MatchLoop(self, fs, 1, {}, <<>>)

---------------------------------------------------------------------------
(* Temporal smoothing                                                      *)

\* Line 205
emotion_names ==
    <<"angry", "disgust", "fear", "happy", "sad", "surprise", "neutral">>

\* Weight with a recency weight that grows with the age of the sample
WeightByAge(pred, fc, capacity) ==
    RMul(pred.confidence, Rat(fc - pred.frame, capacity))

\* Lines 160-161 and 211-212: confidence * (1 - (frame_count - frame) / capacity)
Weight(pred, fc, capacity) ==
    RMul(pred.confidence, RSub(One, Rat(fc - pred.frame, capacity)))

\* AppendBounded with pop() in the place of popleft()
AppendBoundedDropNewest(history, sample, capacity) ==
    IF Len(history) + 1 > capacity
    THEN SubSeq(Append(history, sample), 1, Len(history))
    ELSE Append(history, sample)

\* append, then popleft when the deque is longer than capacity
\* (lines 144-152 and 193-202)
AppendBounded(history, sample, capacity) ==
    LET appended == Append(history, sample)
    IN  IF Len(appended) > capacity THEN Tail(appended) ELSE appended

\* terms[1] + ... + terms[n], added in that order to 0.0 as the loops of
\* lines 158-164 and 209-218 do
RECURSIVE SumUpTo(_, _)
SumUpTo(terms, n) ==
    IF n = 0 THEN Zero ELSE RAdd(SumUpTo(terms, n - 1), terms[n])

\* The sum of a sequence of terms
Sum(terms) == SumUpTo(terms, Len(terms))

\* track[key] = history for the track track_id (the deques are mutated in
\* place, lines 144-152 and 193-202)
StoreHistory(self, track_id, key, history) ==
    [self EXCEPT !.tracks[IndexOf(self.tracks, track_id)][key] = history]

\* Lines 166-174: the returned pair, from the sums of the loop
AgeAggregate(new_age, confidence, age_history, total_weight, weighted_sum) ==
    IF RLt(Zero, total_weight)
    THEN [smoothed_age |-> RDiv(weighted_sum, total_weight),
          avg_confidence |->
              RDiv(Sum([k \in 1..Len(age_history) |->
                           age_history[k].confidence]),
                   FromInt(Len(age_history)))]
    ELSE [smoothed_age |-> FromInt(new_age), avg_confidence |-> confidence]

\* Lines 154-174: the weighted average over the history
SmoothedAge(new_age, confidence, age_history, fc) ==
    AgeAggregate(
        new_age, confidence, age_history,
        Sum([k \in 1..Len(age_history) |->
                Weight(age_history[k], fc, max_age_history)]),
        Sum([k \in 1..Len(age_history) |->
                RMul(FromInt(age_history[k].age),
                     Weight(age_history[k], fc, max_age_history))]))

\* AgeResult with the smoothed age, in whole tenths, written back into the
\* newest sample of the history
AgeResultFeedback(self, track_id, new_age, confidence, age_history) ==
    [self |->
         StoreHistory(
             self, track_id, "age_history",
             [age_history EXCEPT ![Len(age_history)].age =
                  SmoothedAge(new_age, confidence, age_history,
                              self.frame_count).smoothed_age[1]
                  \div SmoothedAge(new_age, confidence, age_history,
                                   self.frame_count).smoothed_age[2]]),
     ret |-> SmoothedAge(new_age, confidence, age_history, self.frame_count)]

\* Lines 154-174, for the history as updated by lines 144-152
AgeResult(self, track_id, new_age, confidence, age_history) ==
    [self |-> StoreHistory(self, track_id, "age_history", age_history),
     ret |-> SmoothedAge(new_age, confidence, age_history, self.frame_count)]

\* Lines 141-174.  Returns the tracker after the call and, in ret, the
\* returned pair (smoothed_age, avg_confidence).
smooth_age_prediction(self, track_id, new_age, confidence) ==
    AgeResult(self, track_id, new_age, confidence,
              AppendBounded(TrackOf(self.tracks, track_id).age_history,
                            [age |-> new_age, confidence |-> confidence,
                             frame |-> self.frame_count],
                            max_age_history))

\* An emotion dict is the sequence of its items <<key, value>> in iteration
\* order: key in d, and d[key]
HasKey(d, key) == \E n \in 1..Len(d) : d[n][1] = key
ValueOf(d, key) == d[CHOOSE n \in 1..Len(d) : d[n][1] = key][2]

\* max(d.items(), key=lambda x: x[1]) over the items from position n on: the
\* first item, in iteration order, with the largest value (line 227)
RECURSIVE MaxItem(_, _, _)
MaxItem(d, n, best) ==
    IF n > Len(d) THEN best
    ELSE IF RLt(best[2], d[n][2]) THEN MaxItem(d, n + 1, d[n])
    ELSE MaxItem(d, n + 1, best)

\* Lines 206-224: the smoothed map, from the total weight of the loop
EmotionAggregate(emotions, emotion_history, fc, total_weight) ==
    IF RLt(Zero, total_weight)
    THEN [n \in 1..Len(emotion_names) |->
             <<emotion_names[n],
               RDiv(Sum([k \in 1..Len(emotion_history) |->
                            IF HasKey(emotion_history[k].emotions,
                                      emotion_names[n])
                            THEN RMul(ValueOf(emotion_history[k].emotions,
                                              emotion_names[n]),
                                      Weight(emotion_history[k], fc,
                                             max_emotion_history))
                            ELSE Zero]),
                    total_weight)>>]
    ELSE emotions

\* Lines 204-224
SmoothedEmotions(emotions, emotion_history, fc) ==
    EmotionAggregate(
        emotions, emotion_history, fc,
        Sum([k \in 1..Len(emotion_history) |->
                Weight(emotion_history[k], fc, max_emotion_history)]))

\* Lines 226-230: max() of an empty dict raises ValueError
DominantEmotion(smoothed_emotions) ==
    IF smoothed_emotions = <<>>
    THEN [exc |-> "ValueError"]
    ELSE [exc |-> "None",
          smoothed_emotions |-> smoothed_emotions,
          smoothed_dominant |-> MaxItem(smoothed_emotions, 2,
                                        smoothed_emotions[1])[1],
          smoothed_confidence |->
              ValueOf(smoothed_emotions,
                      MaxItem(smoothed_emotions, 2, smoothed_emotions[1])[1])]

\* Lines 204-230, for the history as updated by lines 193-202
EmotionResult(self, track_id, emotions, emotion_history) ==
    [self |-> StoreHistory(self, track_id, "emotion_history", emotion_history),
     ret |-> DominantEmotion(
                 SmoothedEmotions(emotions, emotion_history, self.frame_count))]

\* Lines 190-230.  Returns the tracker after the call and, in ret, the
\* exception raised ("None" when the call returns) with the returned triple.
\* The exception is raised after the history has been updated.
smooth_emotion_prediction(self, track_id, emotions, dominant_emotion, confidence) ==
    EmotionResult(self, track_id, emotions,
                  AppendBounded(TrackOf(self.tracks, track_id).emotion_history,
                                [emotions |-> emotions,
                                 dominant_emotion |-> dominant_emotion,
                                 confidence |-> confidence,
                                 frame |-> self.frame_count],
                                max_emotion_history))

---------------------------------------------------------------------------
(* update_tracks                                                           *)

\* round(x, 1) for x in tenths: the nearest integer, a tie going to the even
\* one (line 283)
Round1(x) ==
    LET floor == x[1] \div x[2]
        twice == 2 * (x[1] - floor * x[2])
    IN  IF twice < x[2] THEN floor
        ELSE IF twice > x[2] THEN floor + 1
        ELSE IF floor % 2 = 0 THEN floor ELSE floor + 1

\* d with d[key] = value, the key added when it is absent
Put(d, key, value) ==
    [k \in DOMAIN d \cup {key} |-> IF k = key THEN value ELSE d[k]]

\* The registry as recorded in steps
Snapshot(self) == [tracks |-> self.tracks, next_track_id |-> self.next_track_id]

\* HasCapacity with <= in the place of <
HasCapacityOffByOne(self) == Len(self.tracks) <= max_tracks

\* Line 256: whether a new track may be created
HasCapacity(self) == Len(self.tracks) < max_tracks

\* NewTrackId taken from the size of the registry
NewTrackIdFromSize(self) == Len(self.tracks)

\* Line 257: the id of the track to create
NewTrackId(self) == self.next_track_id

\* Lines 257-266: the tracker with a new track for face
CreateTrack(self, face) ==
    [self EXCEPT
        !.next_track_id = @ + 1,
        !.tracks = SetTrack(@, NewTrackId(self),
                            [track_id |-> NewTrackId(self),
                             age_history |-> <<>>,
                             emotion_history |-> <<>>,
                             last_bbox |-> Get(face, "bbox", DefaultBox),
                             last_seen |-> self.frame_count,
                             created_frame |-> self.frame_count])]

\* TouchTrack without the assignment to last_seen
TouchTrackBoxOnly(self, face, track_id) ==
    [self EXCEPT
        !.tracks[IndexOf(self.tracks, track_id)].last_bbox =
            Get(face, "bbox", DefaultBox)]

\* Lines 273-276: the tracker with the track's last_bbox and last_seen set
TouchTrack(self, face, track_id) ==
    [self EXCEPT
        !.tracks[IndexOf(self.tracks, track_id)].last_bbox =
            Get(face, "bbox", DefaultBox),
        !.tracks[IndexOf(self.tracks, track_id)].last_seen = self.frame_count]

\* Lines 283-284, for the result r of smooth_age_prediction
ApplyAge(st, r) ==
    [st EXCEPT !.self = r.self,
               !.face = Put(Put(@, "age", Round1(r.ret.smoothed_age)),
                            "age_confidence", r.ret.avg_confidence)]

\* SmoothAge with a default age of 25 for a detection without age
SmoothAgeDefaulting(st, track_id) ==
    ApplyAge(st, smooth_age_prediction(
                     st.self, track_id, Get(st.face, "age", 250),
                     Get(st.face, "age_confidence", Rat(1, 2))))

\* Lines 279-284: the tracker and the face after the age smoothing
SmoothAge(st, track_id) ==
    IF "age" \in DOMAIN st.face
    THEN ApplyAge(st, smooth_age_prediction(
                          st.self, track_id, st.face.age,
                          Get(st.face, "age_confidence", Rat(1, 2))))
    ELSE st

\* Lines 292-294, for the result r of smooth_emotion_prediction
ApplyEmotion(st, r) ==
    IF r.ret.exc # "None"
    THEN [st EXCEPT !.self = r.self, !.exc = r.ret.exc]
    ELSE [st EXCEPT
             !.self = r.self,
             !.face = Put(Put(Put(@, "emotions", r.ret.smoothed_emotions),
                              "dominant_emotion", r.ret.smoothed_dominant),
                          "emotion_confidence", r.ret.smoothed_confidence)]

\* Lines 286-294: the tracker and the face after the emotion smoothing
SmoothEmotion(st, track_id) ==
    IF st.exc = "None" /\ "emotions" \in DOMAIN st.face
    THEN ApplyEmotion(st, smooth_emotion_prediction(
                              st.self, track_id, st.face.emotions,
                              Get(st.face, "dominant_emotion", "neutral"),
                              Get(st.face, "emotion_confidence", Rat(1, 2))))
    ELSE st

\* Lines 296-298
Annotate(st, track_id, track_age) ==
    IF st.exc # "None" THEN st
    ELSE [st EXCEPT !.face = Put(Put(@, "track_id", track_id),
                                 "track_age", track_age)]

\* Lines 272-300: the body of the loop for a face whose track is track_id.
\* Returns the tracker, the face to append and the exception raised.
UpdateTrack(self, face, track_id) ==
    Annotate(
        SmoothEmotion(
            SmoothAge([self |-> TouchTrack(self, face, track_id),
                       face |-> face, exc |-> "None"],
                      track_id),
            track_id),
        track_id,
        self.frame_count - TrackOf(self.tracks, track_id).created_frame)

\* Lines 276 and 300, for the result r of the body: acc holds the tracker,
\* updated_faces, active_track_ids, the exception raised and the registry
\* after each iteration
Tracked(acc, r, track_id) ==
    [self |-> r.self,
     updated_faces |-> IF r.exc = "None" THEN Append(acc.updated_faces, r.face)
                       ELSE acc.updated_faces,
     active_track_ids |-> acc.active_track_ids \cup {track_id},
     exc |-> r.exc,
     steps |-> Append(acc.steps, Snapshot(r.self))]

\* UpdateStep that does not append a rejected detection to updated_faces
UpdateStepDropping(face, matched, acc) ==
    IF matched # None
    THEN Tracked(acc, UpdateTrack(acc.self, face, matched), matched)
    ELSE IF HasCapacity(acc.self)
    THEN Tracked(acc,
                 UpdateTrack(CreateTrack(acc.self, face), face,
                             NewTrackId(acc.self)),
                 NewTrackId(acc.self))
    ELSE [acc EXCEPT !.steps = Append(@, Snapshot(acc.self))]

\* UpdateStep that makes room in a full registry by removing its oldest track
UpdateStepEvicting(face, matched, acc) ==
    IF matched # None
    THEN Tracked(acc, UpdateTrack(acc.self, face, matched), matched)
    ELSE IF HasCapacity(acc.self)
    THEN Tracked(acc,
                 UpdateTrack(CreateTrack(acc.self, face), face,
                             NewTrackId(acc.self)),
                 NewTrackId(acc.self))
    ELSE Tracked(acc,
                 UpdateTrack(CreateTrack([acc.self EXCEPT !.tracks = Tail(@)],
                                         face),
                             face, NewTrackId(acc.self)),
                 NewTrackId(acc.self))

\* Lines 252-300: one iteration of the loop, for face matched to track
\* matched (None: to no track)
UpdateStep(face, matched, acc) ==
    IF matched # None
    THEN Tracked(acc, UpdateTrack(acc.self, face, matched), matched)
    ELSE IF HasCapacity(acc.self)
    THEN Tracked(acc,
                 UpdateTrack(CreateTrack(acc.self, face), face,
                             NewTrackId(acc.self)),
                 NewTrackId(acc.self))
    ELSE [acc EXCEPT !.updated_faces = Append(@, face),
                     !.steps = Append(@, Snapshot(acc.self))]

\* UpdateLoop that takes the matches from the last to the first
RECURSIVE UpdateLoopReversed(_, _, _, _)
UpdateLoopReversed(fs, ms, n, acc) ==
    IF n > Len(ms) \/ acc.exc # "None" THEN acc
    ELSE UpdateLoopReversed(fs, ms, n + 1,
                            UpdateStep(fs[ms[Len(ms) - n + 1][1] + 1],
                                       ms[Len(ms) - n + 1][2], acc))

\* Lines 251-300: the loop over matches, from pair n on, left when an
\* exception is raised
RECURSIVE UpdateLoop(_, _, _, _)
UpdateLoop(fs, ms, n, acc) ==
    IF n > Len(ms) \/ acc.exc # "None" THEN acc
    ELSE UpdateLoop(fs, ms, n + 1, UpdateStep(fs[ms[n][1] + 1], ms[n][2], acc))

\* IsStale with max_age_history in the place of max_missing_frames
IsStaleByHistory(self, track, active_track_ids) ==
    /\ track.track_id \notin active_track_ids
    /\ self.frame_count - track.last_seen > max_age_history

\* IsStale with >= in the place of >
IsStaleInclusive(self, track, active_track_ids) ==
    /\ track.track_id \notin active_track_ids
    /\ self.frame_count - track.last_seen >= max_missing_frames

\* IsStale with one more frame of grace
IsStaleLate(self, track, active_track_ids) ==
    /\ track.track_id \notin active_track_ids
    /\ self.frame_count - track.last_seen > max_missing_frames + 1

\* Lines 303-307: whether the track is removed at the end of the frame
IsStale(self, track, active_track_ids) ==
    /\ track.track_id \notin active_track_ids
    /\ self.frame_count - track.last_seen > max_missing_frames

\* Lines 302-311
RemoveOldTracks(self, active_track_ids) ==
    [self EXCEPT !.tracks =
        SelectSeq(@, LAMBDA track : ~IsStale(self, track, active_track_ids))]

\* Lines 302-313, for the outcome of the loop: an exception skips the removal
\* of old tracks and nothing is returned
Finish(ms, loop) ==
    IF loop.exc # "None"
    THEN [self |-> loop.self, updated_faces |-> <<>>, exc |-> loop.exc,
          matches |-> ms, steps |-> loop.steps]
    ELSE [self |-> RemoveOldTracks(loop.self, loop.active_track_ids),
          updated_faces |-> loop.updated_faces, exc |-> "None",
          matches |-> ms, steps |-> loop.steps]

\* Lines 247-313, for the matches ms
UpdateMatched(self, fs, ms) ==
    Finish(ms, UpdateLoop(fs, ms, 1,
                          [self |-> self, updated_faces |-> <<>>,
                           active_track_ids |-> {}, exc |-> "None",
                           steps |-> <<Snapshot(self)>>]))

\* UpdateFrame with the old tracks removed before the loop too
UpdateFrameEvictingFirst(self, fs) ==
    UpdateMatched(RemoveOldTracks(self, {}), fs,
                  match_faces_to_tracks(RemoveOldTracks(self, {}), fs))

\* Lines 245-313, with frame_count incremented
UpdateFrame(self, fs) == UpdateMatched(self, fs, match_faces_to_tracks(self, fs))

\* update_tracks with an early return for an empty list, before line 242
update_tracks_returning_early(self, fs) ==
    IF fs = <<>>
    THEN [self |-> self, updated_faces |-> <<>>, exc |-> "None",
          matches |-> <<>>, steps |-> <<Snapshot(self)>>]
    ELSE UpdateFrame([self EXCEPT !.frame_count = @ + 1], fs)

\* Lines 232-313.  Returns the tracker after the call, the returned list
\* (empty when an exception is raised), the exception ("None" when the call
\* returns), and the matches and the registry at loop entry and after each
\* iteration.
update_tracks(self, fs) == UpdateFrame([self EXCEPT !.frame_count = @ + 1], fs)

---------------------------------------------------------------------------
(* Bounds and inputs                                                       *)

\* Largest max_tracks and max_missing_frames a tracker is constructed with, and
\* its max_age_history and max_emotion_history
MaxTracks == 2
MaxMissingFrames == 1
MaxAgeHistory == 2
MaxEmotionHistory == 2
\* Number of update_tracks calls in a run, and of detections in a frame
MaxFrames == 3
MaxFaces == 2
\* Number of update_tracks calls in a run of SpecRepeat
MaxRepeats == 5
\* Number of update_tracks calls in a run of SpecGap, and the largest
\* max_missing_frames of its trackers
MaxGapFrames == 4
MaxGap == 2
\* Number of update_tracks calls in a run of SpecSlot
MaxSlotFrames == 4
\* Boxes given to calculate_iou on its own: x, y in 0..MaxCoord and
\* w, h in -1..MaxSize
MaxCoord == 2
MaxSize == 2

\* Three face positions: BoxA and BoxB overlap with IoU 8/24 = 1/3, above the
\* default threshold 0.3; BoxC is disjoint from both
BoxA == <<0, 0, 4, 4>>
BoxB == <<2, 0, 4, 4>>
BoxC == <<10, 10, 4, 4>>
Boxes == {BoxA, BoxB, BoxC}

\* The union of two dicts with disjoint keys
Merge(d, e) ==
    [k \in DOMAIN d \cup DOMAIN e |-> IF k \in DOMAIN d THEN d[k] ELSE e[k]]

\* A detection as the face detector emits it
Detection(bbox) == [bbox |-> bbox, confidence |-> Rat(9, 10)]

\* Optional age fields: an age in tenths of a year and its confidence
AgeFields(age, age_confidence) ==
    [age |-> age, age_confidence |-> age_confidence]

\* Optional emotion fields
EmotionFields(emotions, dominant_emotion, emotion_confidence) ==
    [emotions |-> emotions, dominant_emotion |-> dominant_emotion,
     emotion_confidence |-> emotion_confidence]

\* Emotion dicts: the items in the order the dict was built
Happy == <<(<<"happy", One>>)>>
NoEmotions == <<>>

\* A detection with an age and emotions
Full(bbox) ==
    Merge(Detection(bbox),
          Merge(AgeFields(200, One), EmotionFields(Happy, "happy", One)))

\* A detection with an empty emotion map of confidence 0
Blank(bbox) ==
    Merge(Detection(bbox), EmotionFields(NoEmotions, "neutral", Zero))

\* The detections of the frames of Spec
Detections ==
    {Detection(b) : b \in Boxes} \cup {Full(b) : b \in Boxes} \cup {Blank(BoxA)}

\* All lists of at most n elements of S
RECURSIVE SeqsUpTo(_, _)
SeqsUpTo(S, n) ==
    IF n = 0 THEN {<<>>}
    ELSE LET shorter == SeqsUpTo(S, n - 1)
         IN  shorter \cup {Append(q, x) : q \in shorter, x \in S}

Frames == SeqsUpTo(Detections, MaxFaces)

IouBoxes ==
    {<<x, y, w, h>> : x \in 0..MaxCoord, y \in 0..MaxCoord,
                      w \in -1..MaxSize, h \in -1..MaxSize}
    \cup {<<0, 0>>}

\* Boxes for the matching rule.  BoxD touches BoxA on an edge (IoU 0) and
\* overlaps BoxB as much as BoxA does (IoU 1/3 both); BoxE overlaps BoxA with
\* IoU 6/20, exactly the default threshold 0.3
BoxD == <<4, 0, 4, 4>>
BoxE == <<1, 0, 5, 2>>

\* Malformed geometry: a bbox of three fields, and the square of BoxA written
\* with a negative width and with a negative height
BoxShort == <<0, 0, 4>>
BoxNegW == <<4, 0, -4, 4>>
BoxNegH == <<0, 4, 4, -4>>

\* A detection without bbox
NoBox == [confidence |-> Rat(9, 10)]

\* The detections of the frames of SpecGeom
GeomDetections ==
    {Detection(b) : b \in {BoxA, BoxB, BoxD, BoxE, BoxShort, BoxNegW, BoxNegH}}
    \cup {NoBox}

GeomFrames == SeqsUpTo(GeomDetections, MaxFaces)

\* An emotion dict built in another order than emotion_names
Sad == <<(<<"neutral", Rat(1, 5)>>), (<<"sad", Rat(4, 5)>>)>>

\* A detection with an age of confidence 0
ZeroAge(bbox) == Merge(Detection(bbox), AgeFields(220, Zero))

\* A detection with emotions of confidence 0
ZeroEmotion(bbox) == Merge(Detection(bbox), EmotionFields(Sad, "sad", Zero))

\* The detections of the frames of SpecSmooth: one face position with every
\* combination of optional fields, and a second face
SmoothDetections ==
    {Detection(BoxA), Full(BoxA), Blank(BoxA), ZeroAge(BoxA),
     ZeroEmotion(BoxA), Full(BoxC)}

SmoothFrames == SeqsUpTo(SmoothDetections, MaxFaces)

\* Frames of two detections whose boxes do not overlap
RepeatFrames ==
    {fs \in SeqsUpTo(Detections, 2) :
        /\ Len(fs) = 2
        /\ calculate_iou(fs[1].bbox, fs[2].bbox) = Zero}

\* The ages, in tenths of a year, fed to one face in successive frames
AgeSequence == <<200, 220, 240>>

\* The positions of that face
FaceBoxes == {box \in IouBoxes : Len(box) = 4 /\ box[3] > 0 /\ box[4] > 0}

\* The frame of the face at bbox in the call after n calls
AgeFrame(bbox, n) ==
    <<Merge(Detection(bbox), AgeFields(AgeSequence[n + 1], One))>>

\* An emotion dict with two largest values, built in another order than
\* emotion_names
Tied == <<(<<"neutral", Rat(1, 2)>>), (<<"happy", Rat(1, 2)>>)>>

\* A detection with an age and emotions of confidence 0.5
Half(bbox) ==
    Merge(Detection(bbox),
          Merge(AgeFields(200, Rat(1, 2)),
                EmotionFields(Happy, "happy", Rat(1, 2))))

\* A detection with another age and other emotions, of confidence 1
Sure(bbox) ==
    Merge(Detection(bbox),
          Merge(AgeFields(230, One), EmotionFields(Sad, "sad", One)))

\* A detection with tied emotions of confidence 0
TiedZero(bbox) == Merge(Detection(bbox), EmotionFields(Tied, "happy", Zero))

\* The detections of the frames of SpecGap: one face position
GapDetections ==
    {Detection(BoxA), Half(BoxA), Sure(BoxA), TiedZero(BoxA), Blank(BoxA)}

\* Frames with the face or without it
GapFrames == SeqsUpTo(GapDetections, 1)

\* The detections of the frames of SpecSlot: three positions that do not
\* overlap, without optional fields
SlotDetections == {Detection(b) : b \in {BoxA, BoxC, BoxD}}

SlotFrames == SeqsUpTo(SlotDetections, MaxFaces)

---------------------------------------------------------------------------
(* The state machine                                                       *)

\* self, as the methods see it
Self == [tracks |-> tracks, next_track_id |-> next_track_id,
         frame_count |-> frame_count]

\* __init__, lines 37-46, for the given arguments
Constructed(mt, mah, meh, thr, mmf) ==
    /\ max_tracks = mt
    /\ max_age_history = mah
    /\ max_emotion_history = meh
    /\ iou_threshold = thr
    /\ max_missing_frames = mmf
    /\ tracks = <<>>
    /\ next_track_id = 0
    /\ frame_count = 0

\* Nothing has been called yet
NoCalls ==
    /\ faces = <<>>
    /\ updated_faces = <<>>
    /\ exc = "None"
    /\ matches = <<>>
    /\ steps = <<>>
    /\ issued = {}
    /\ age_arrivals = <<>>
    /\ emotion_arrivals = <<>>
    /\ last_matched = <<>>

Init ==
    /\ \E mt \in 1..MaxTracks, mmf \in 0..MaxMissingFrames :
          Constructed(mt, MaxAgeHistory, MaxEmotionHistory, Rat(3, 10), mmf)
    /\ NoCalls
    /\ box1 = DefaultBox /\ box2 = DefaultBox /\ iou = <<>>

\* The track_ids that are keys of the registry after iteration n of the loop
\* of update_tracks (snapshots[n + 1]) and not before it (snapshots[n])
CreatedAt(snapshots, n) ==
    KeySet(snapshots[n + 1].tracks) \ KeySet(snapshots[n].tracks)

\* The track that iteration n of the loop of update_tracks worked on: the
\* matched one, the one it created, or None
TrackAt(r, n) ==
    IF r.matches[n][2] # None THEN r.matches[n][2]
    ELSE IF CreatedAt(r.steps, n) # {}
    THEN CHOOSE id \in CreatedAt(r.steps, n) : TRUE
    ELSE None

\* The sample line 144 appends for face in frame fc
AgeSample(face, fc) ==
    [age |-> face.age,
     confidence |-> Get(face, "age_confidence", Rat(1, 2)),
     frame |-> fc]

\* The sample line 193 appends for face in frame fc
EmotionSample(face, fc) ==
    [emotions |-> face.emotions,
     dominant_emotion |-> Get(face, "dominant_emotion", "neutral"),
     confidence |-> Get(face, "emotion_confidence", Rat(1, 2)),
     frame |-> fc]

\* The detections, in order, that call r worked on for track_id and that
\* carry key: those for which a sample was appended to the track's history
SamplesFor(r, fs, track_id, key) ==
    SelectSeq([n \in 1..(Len(r.steps) - 1) |->
                  [track_id |-> TrackAt(r, n), face |-> fs[n]]],
              LAMBDA x : x.track_id = track_id /\ key \in DOMAIN x.face)

\* The age samples that call r appended for track_id, in order
AgeArrivals(r, fs, track_id) ==
    [k \in 1..Len(SamplesFor(r, fs, track_id, "age")) |->
        AgeSample(SamplesFor(r, fs, track_id, "age")[k].face,
                  r.self.frame_count)]

\* The emotion samples that call r appended for track_id, in order
EmotionArrivals(r, fs, track_id) ==
    [k \in 1..Len(SamplesFor(r, fs, track_id, "emotions")) |->
        EmotionSample(SamplesFor(r, fs, track_id, "emotions")[k].face,
                      r.self.frame_count)]

\* The state after a call update_tracks(fs) with outcome r
Called(fs, r) ==
    /\ tracks' = r.self.tracks
    /\ next_track_id' = r.self.next_track_id
    /\ frame_count' = r.self.frame_count
    /\ faces' = fs
    /\ updated_faces' = r.updated_faces
    /\ exc' = r.exc
    /\ matches' = r.matches
    /\ steps' = r.steps
    /\ issued' = issued \cup
           UNION {KeySet(r.steps[n].tracks) : n \in 1..Len(r.steps)}
    /\ age_arrivals' =
           [id \in KeySet(r.self.tracks) |->
               Get(age_arrivals, id, <<>>) \o AgeArrivals(r, fs, id)]
    /\ emotion_arrivals' =
           [id \in KeySet(r.self.tracks) |->
               Get(emotion_arrivals, id, <<>>) \o EmotionArrivals(r, fs, id)]
    /\ last_matched' =
           [id \in KeySet(r.self.tracks) |->
               IF \E n \in 1..(Len(r.steps) - 1) : TrackAt(r, n) = id
               THEN r.self.frame_count
               ELSE Get(last_matched, id, 0)]
    /\ UNCHANGED <<config_vars, iou_vars>>

\* One update_tracks(fs) call
UpdateTracksCall(fs) ==
    /\ frame_count < MaxFrames
    /\ \E r \in {update_tracks(Self, fs)} : Called(fs, r)

Next == \E fs \in Frames : UpdateTracksCall(fs)

Spec == Init /\ [][Next]_vars

\* Trackers with a threshold of 0 or 0.3, fed detections that differ in
\* geometry only
InitGeom ==
    /\ \E mt \in 1..MaxTracks, thr \in {Zero, Rat(3, 10)} :
          Constructed(mt, MaxAgeHistory, MaxEmotionHistory, thr,
                      MaxMissingFrames)
    /\ NoCalls
    /\ box1 = DefaultBox /\ box2 = DefaultBox /\ iou = <<>>

NextGeom == \E fs \in GeomFrames : UpdateTracksCall(fs)

SpecGeom == InitGeom /\ [][NextGeom]_vars

\* Trackers fed detections that differ in their optional fields
NextSmooth == \E fs \in SmoothFrames : UpdateTracksCall(fs)

SpecSmooth == Init /\ [][NextSmooth]_vars

\* A tracker with max_tracks = 1 that is given the same frame in every call
InitRepeat ==
    /\ \E mmf \in 0..MaxMissingFrames :
          Constructed(1, MaxAgeHistory, MaxEmotionHistory, Rat(3, 10), mmf)
    /\ NoCalls
    /\ box1 = DefaultBox /\ box2 = DefaultBox /\ iou = <<>>

RepeatCall(fs) ==
    /\ frame_count < MaxRepeats
    /\ IF frame_count = 0 THEN TRUE ELSE faces = fs
    /\ \E r \in {update_tracks(Self, fs)} : Called(fs, r)

NextRepeat == \E fs \in RepeatFrames : RepeatCall(fs)

SpecRepeat == InitRepeat /\ [][NextRepeat]_vars

\* A tracker with max_age_history = 10 that is given one stationary face with
\* the ages of AgeSequence
InitAges ==
    /\ \E mt \in 1..MaxTracks, mmf \in 0..MaxMissingFrames :
          Constructed(mt, 10, 5, Rat(3, 10), mmf)
    /\ NoCalls
    /\ box1 = DefaultBox /\ box2 = DefaultBox /\ iou = <<>>

AgeCall(bbox) ==
    /\ frame_count < Len(AgeSequence)
    /\ IF frame_count = 0 THEN TRUE ELSE faces[1].bbox = bbox
    /\ \E r \in {update_tracks(Self, AgeFrame(bbox, frame_count))} :
           Called(AgeFrame(bbox, frame_count), r)

NextAges == \E bbox \in FaceBoxes : AgeCall(bbox)

SpecAges == InitAges /\ [][NextAges]_vars

\* Trackers whose max_missing_frames reaches the capacity of the histories,
\* fed one face that may be missing from frames
InitGap ==
    /\ \E mmf \in 0..MaxGap :
          Constructed(MaxTracks, MaxAgeHistory, MaxEmotionHistory, Rat(3, 10),
                      mmf)
    /\ NoCalls
    /\ box1 = DefaultBox /\ box2 = DefaultBox /\ iou = <<>>

GapCall(fs) ==
    /\ frame_count < MaxGapFrames
    /\ \E r \in {update_tracks(Self, fs)} : Called(fs, r)

NextGap == \E fs \in GapFrames : GapCall(fs)

SpecGap == InitGap /\ [][NextGap]_vars

\* Trackers fed faces that come and go at three positions
SlotCall(fs) ==
    /\ frame_count < MaxSlotFrames
    /\ \E r \in {update_tracks(Self, fs)} : Called(fs, r)

NextSlot == \E fs \in SlotFrames : SlotCall(fs)

SpecSlot == Init /\ [][NextSlot]_vars

\* The detections of the frames of SpecMatch
MatchDetections == {Detection(b) : b \in {BoxA, BoxB, BoxD}} \cup {NoBox}

MatchFrames == SeqsUpTo(MatchDetections, MaxFaces)

\* One match_faces_to_tracks(fs) call on its own: lines 91-127 assign to no
\* attribute of self
MatchCall(fs) ==
    /\ faces' = fs
    /\ matches' = match_faces_to_tracks(Self, fs)
    /\ updated_faces' = <<>>
    /\ exc' = "None"
    /\ steps' = <<>>
    /\ UNCHANGED <<config_vars, tracker_vars, ghost_vars, iou_vars>>

\* Trackers on which match_faces_to_tracks is also called on its own, between
\* update_tracks calls
NextMatch ==
    \E fs \in MatchFrames : UpdateTracksCall(fs) \/ MatchCall(fs)

SpecMatch == InitGeom /\ [][NextMatch]_vars

\* calculate_iou on its own, for two boxes drawn by InitIou
CalculateIouCall ==
    /\ iou = <<>>
    /\ iou' = calculate_iou(box1, box2)
    /\ UNCHANGED <<config_vars, tracker_vars, call_vars, ghost_vars, box1, box2>>

InitIou ==
    /\ Constructed(3, 10, 5, Rat(3, 10), 10)
    /\ NoCalls
    /\ box1 \in IouBoxes /\ box2 \in IouBoxes /\ iou = <<>>

NextIou == CalculateIouCall

SpecIou == InitIou /\ [][NextIou]_vars

---------------------------------------------------------------------------
(* Properties                                                              *)

\* The last call returned (it raised nothing)
Returned == exc = "None"

\* Output n of the last call carries a track_id
IsTracked(n) == "track_id" \in DOMAIN updated_faces[n]

\* The keys update_tracks may write in a detection
SmoothedKeys == {"age", "age_confidence", "emotions", "dominant_emotion",
                 "emotion_confidence"}
TrackKeys == {"track_id", "track_age"}

\* The last at most n elements of a sequence
LastN(q, n) == SubSeq(q, Max(1, Len(q) - n + 1), Len(q))

\* C1 (capacity invariant): after every update_tracks call, and after every
\* iteration of its loop over the detections, the registry holds at most
\* max_tracks tracks.
C1_Capacity ==
    /\ Len(tracks) <= max_tracks
    /\ \A n \in 1..Len(steps) : Len(steps[n].tracks) <= max_tracks

\* The registry is full and the last call left a detection untracked
C1_Witness ==
    /\ Returned
    /\ Len(tracks) = max_tracks
    /\ \E n \in 1..Len(updated_faces) : ~IsTracked(n)

\* C2 (bounded history): every live track holds at most max_age_history age
\* samples and at most max_emotion_history emotion samples, and they are the
\* most recent samples that arrived for the track, in arrival order.
C2_BoundedHistory ==
    \A k \in 1..Len(tracks) :
        LET track == tracks[k]
        IN  /\ Len(track.age_history) <= max_age_history
            /\ Len(track.emotion_history) <= max_emotion_history
            /\ track.age_history =
                   LastN(age_arrivals[track.track_id], max_age_history)
            /\ track.emotion_history =
                   LastN(emotion_arrivals[track.track_id], max_emotion_history)

\* A track has received more age samples and more emotion samples than its
\* histories can hold
C2_Witness ==
    \E k \in 1..Len(tracks) :
        /\ Len(age_arrivals[tracks[k].track_id]) > max_age_history
        /\ Len(emotion_arrivals[tracks[k].track_id]) > max_emotion_history

\* C3 (bijective matching): in the list a call returns no two detections carry
\* the same track_id, and match_faces_to_tracks gives no track to two
\* detections.
C3_Bijective ==
    /\ \A i, j \in 1..Len(updated_faces) :
           i # j /\ IsTracked(i) /\ IsTracked(j)
           => updated_faces[i].track_id # updated_faces[j].track_id
    /\ \A i, j \in 1..Len(matches) :
           i # j /\ matches[i][2] # None => matches[i][2] # matches[j][2]

\* Two detections with the same box in one frame: the first is matched to an
\* existing track, the second gets a track created in this frame
C3_Witness ==
    /\ Returned
    /\ Len(updated_faces) = 2
    /\ faces[1].bbox = faces[2].bbox
    /\ matches[1][2] # None /\ matches[2][2] = None
    /\ IsTracked(1) /\ IsTracked(2)

\* C4 (eviction law): a live track that no detection was matched to in frame F
\* nor in any later frame is gone once the call for frame
\* F + max_missing_frames + 1 has returned.
C4_EvictionLaw ==
    Returned =>
        \A k \in 1..Len(tracks) :
            \A F \in (last_matched[tracks[k].track_id] + 1)..frame_count :
                frame_count < F + max_missing_frames + 1

\* A track was evicted by a tracker that tolerates a missing frame
C4_Witness ==
    /\ Returned
    /\ max_missing_frames = 1
    /\ issued \ KeySet(tracks) # {}

\* C5 (identities never reused): in every call, each created track has a
\* track_id greater than every track_id handed out before; next_track_id never
\* decreases and grows by exactly the number of tracks created, so a
\* detection rejected for lack of capacity consumes no id.
C5_Call ==
    /\ next_track_id' >= next_track_id
    /\ \A n \in 1..(Len(steps') - 1) :
           /\ \A id \in CreatedAt(steps', n) :
                  \A old \in issued \cup KeySet(steps'[n].tracks) : id > old
           /\ steps'[n + 1].next_track_id - steps'[n].next_track_id
                  = Cardinality(CreatedAt(steps', n))
    /\ Len(steps') > 0 =>
           /\ steps'[1].next_track_id = next_track_id
           /\ steps'[Len(steps')].next_track_id = next_track_id'

C5_UniqueIds == [][C5_Call]_vars

\* A track was created after an earlier track had been evicted, in a call that
\* also rejected a detection
C5_Witness ==
    /\ Returned
    /\ \E dead \in issued \ KeySet(tracks) :
           \E k \in 1..Len(tracks) : tracks[k].created_frame = frame_count
                                     /\ tracks[k].track_id > dead
    /\ \E n \in 1..Len(updated_faces) : ~IsTracked(n)

\* C6 (order and length preserved): a call returns one record per detection,
\* in input order; record n keeps every field of detection n, with the same
\* value unless the field is one the smoothing rewrites.
C6_SameLengthAndOrder ==
    Returned =>
        /\ Len(updated_faces) = Len(faces)
        /\ \A n \in 1..Len(faces) :
               /\ DOMAIN faces[n] \subseteq DOMAIN updated_faces[n]
               /\ \A key \in DOMAIN faces[n] \ SmoothedKeys :
                      updated_faces[n][key] = faces[n][key]

\* Two detections with different boxes, the first left untracked and the
\* second tracked
C6_Witness ==
    /\ Returned
    /\ Len(faces) = 2
    /\ faces[1].bbox # faces[2].bbox
    /\ ~IsTracked(1) /\ IsTracked(2)

\* C7 (capacity exhaustion): a detection that matches no track while the
\* registry holds max_tracks tracks is returned as it came in, and its
\* iteration leaves the registry (tracks, histories, next_track_id) as it was.
C7_CapacityExhaustion ==
    \A n \in 1..(Len(steps) - 1) :
        matches[n][2] = None /\ Len(steps[n].tracks) >= max_tracks
        => /\ steps[n + 1] = steps[n]
           /\ Returned => updated_faces[n] = faces[n]

\* A detection with an age and emotions was rejected by a full registry
C7_Witness ==
    /\ Returned
    /\ \E n \in 1..(Len(steps) - 1) :
           /\ matches[n][2] = None
           /\ Len(steps[n].tracks) = max_tracks
           /\ {"age", "emotions"} \subseteq DOMAIN faces[n]

\* C9 (idempotent passthrough): a tracked detection without age and without
\* emotions is returned with track_id and track_age added and nothing else
\* added or changed, and its iteration leaves both histories of its track as
\* they were (empty for a track created by that iteration).
C9_Passthrough ==
    Returned =>
        \A n \in 1..Len(faces) :
            IsTracked(n) /\ "age" \notin DOMAIN faces[n]
                         /\ "emotions" \notin DOMAIN faces[n]
            => LET id == updated_faces[n].track_id
                   after == TrackOf(steps[n + 1].tracks, id)
                   fresh == id \notin KeySet(steps[n].tracks)
               IN  /\ DOMAIN updated_faces[n] = DOMAIN faces[n] \cup TrackKeys
                   /\ \A key \in DOMAIN faces[n] :
                          updated_faces[n][key] = faces[n][key]
                   /\ after.age_history =
                          IF fresh THEN <<>>
                          ELSE TrackOf(steps[n].tracks, id).age_history
                   /\ after.emotion_history =
                          IF fresh THEN <<>>
                          ELSE TrackOf(steps[n].tracks, id).emotion_history

\* A detection without age and emotions was matched to a track that holds
\* age and emotion samples
C9_Witness ==
    /\ Returned
    /\ \E n \in 1..Len(faces) :
           /\ IsTracked(n)
           /\ DOMAIN faces[n] \cap SmoothedKeys = {}
           /\ TrackOf(steps[n + 1].tracks, updated_faces[n].track_id).age_history
                  # <<>>
           /\ TrackOf(steps[n + 1].tracks,
                      updated_faces[n].track_id).emotion_history # <<>>

\* A box with four fields, w >= 0 and h >= 0
NonNegative(box) == Len(box) = 4 /\ box[3] >= 0 /\ box[4] >= 0

\* C10 (overlap symmetry and identity): for boxes of non-negative width and
\* height calculate_iou(A, B) = calculate_iou(B, A), and calculate_iou(A, A)
\* is 1.0 when A has positive width and height.
C10_SymmetryAndIdentity ==
    iou # <<>> /\ NonNegative(box1) /\ NonNegative(box2)
    => /\ iou = calculate_iou(box2, box1)
       /\ box1 = box2 /\ box1[3] > 0 /\ box1[4] > 0 => iou = One

\* Two different boxes that overlap in part
C10_Witness ==
    /\ iou # <<>> /\ NonNegative(box1) /\ NonNegative(box2)
    /\ box1 # box2
    /\ RLt(Zero, iou) /\ RLt(iou, One)

\* The unit cells of the pixel grid that a box covers
Cells(box) ==
    {<<i, j>> : i \in box[1]..(box[1] + box[3] - 1),
                j \in box[2]..(box[2] + box[4] - 1)}

\* C11 (overlap value): for boxes of non-negative width and height
\* calculate_iou is the area of the intersection divided by the area of the
\* union, lies in [0, 1], and is exactly 0 when the boxes share no area (they
\* are apart, touch on an edge or a corner, or one has zero area) and when the
\* union has zero area.
C11_IntersectionOverUnion ==
    iou # <<>> /\ NonNegative(box1) /\ NonNegative(box2)
    => LET intersection == Cardinality(Cells(box1) \cap Cells(box2))
           union == Cardinality(Cells(box1) \cup Cells(box2))
       IN  /\ iou = IF union = 0 THEN Zero ELSE Rat(intersection, union)
           /\ ~RLt(iou, Zero) /\ ~RLt(One, iou)
           /\ intersection = 0 => iou = Zero

\* Two boxes of positive area that touch on an edge
C11_Witness ==
    /\ iou = Zero /\ NonNegative(box1) /\ NonNegative(box2)
    /\ box1[3] > 0 /\ box1[4] > 0 /\ box2[3] > 0 /\ box2[4] > 0
    /\ box1[1] + box1[3] = box2[1]
    /\ box1[2] = box2[2] /\ box1[4] = box2[4]

\* A detection whose bbox is missing, has fewer than four fields, or has a
\* negative width or height
Malformed(face) ==
    \/ "bbox" \notin DOMAIN face
    \/ Len(face.bbox) < 4
    \/ face.bbox[3] < 0
    \/ face.bbox[4] < 0

\* C12 (malformed geometry): a detection with malformed geometry has overlap 0
\* with every track of the registry and is left unmatched by
\* match_faces_to_tracks, whatever the threshold; and a call whose detections
\* carry no emotions returns, malformed geometry or not.
C12_MalformedGeometry ==
    /\ \A n \in 1..Len(faces) :
           Malformed(faces[n])
           => /\ \A k \in 1..Len(steps[1].tracks) :
                     calculate_iou(Get(faces[n], "bbox", DefaultBox),
                                   steps[1].tracks[k].last_bbox) = Zero
              /\ matches[n][2] = None
    /\ (\A n \in 1..Len(faces) : "emotions" \notin DOMAIN faces[n]) => Returned

\* Under a threshold of 0, a detection that spans the square of a live track
\* with a negative width got a track of its own
C12_Witness ==
    /\ Returned
    /\ iou_threshold = Zero
    /\ \E n \in 1..Len(faces) :
           /\ "bbox" \in DOMAIN faces[n] /\ faces[n].bbox = BoxNegW
           /\ \E k \in 1..Len(steps[1].tracks) :
                  steps[1].tracks[k].last_bbox = BoxA
           /\ IsTracked(n)
           /\ updated_faces[n].track_id \notin KeySet(steps[1].tracks)

\* The last call as match_faces_to_tracks and the loop of update_tracks left it
LastCall == [matches |-> matches, steps |-> steps]

\* Iteration n of the loop of the last call raised
Raised(n) == exc # "None" /\ n = Len(steps) - 1

\* The total weight of a history in the current frame
TotalWeight(history, capacity) ==
    Sum([k \in 1..Len(history) |-> Weight(history[k], frame_count, capacity)])

\* C13 (zero-weight fallback): when the total weight over the retained history
\* is 0, the new sample has been appended to the history,
\* smooth_age_prediction returns the new age and confidence, and
\* smooth_emotion_prediction returns the new sample's emotion map.
C13_ZeroWeightFallback ==
    \A n \in 1..(Len(steps) - 1) :
        TrackAt(LastCall, n) # None
        => LET track == TrackOf(steps[n + 1].tracks, TrackAt(LastCall, n))
           IN  /\ ("age" \in DOMAIN faces[n]
                   /\ TotalWeight(track.age_history, max_age_history) = Zero)
                  => /\ track.age_history[Len(track.age_history)]
                            = AgeSample(faces[n], frame_count)
                     /\ Returned
                        => /\ updated_faces[n].age = faces[n].age
                           /\ updated_faces[n].age_confidence
                                  = Get(faces[n], "age_confidence", Rat(1, 2))
               /\ ("emotions" \in DOMAIN faces[n]
                   /\ TotalWeight(track.emotion_history, max_emotion_history)
                          = Zero)
                  => /\ track.emotion_history[Len(track.emotion_history)]
                            = EmotionSample(faces[n], frame_count)
                     /\ ~Raised(n)
                     /\ Returned
                        => updated_faces[n].emotions = faces[n].emotions

\* C14 (no exception on an empty or zero-weight aggregation): every call
\* returns, and every detection that carried emotions is returned with a
\* dominant_emotion and an emotion_confidence.
C14_NeverRaises ==
    /\ Returned
    /\ \A n \in 1..Len(faces) :
           "emotions" \in DOMAIN faces[n]
           => {"dominant_emotion", "emotion_confidence"}
                  \subseteq DOMAIN updated_faces[n]

\* The overlap of detection n of the last call with a track
Overlap(n, track) ==
    calculate_iou(Get(faces[n], "bbox", DefaultBox), track.last_bbox)

\* Detection n of the last call is the first of the frame to reach the track,
\* which it overlaps above the threshold and more than any other track of
\* the registry
Reaches(n, track) ==
    /\ RLt(iou_threshold, Overlap(n, track))
    /\ \A i \in 1..(n - 1) : matches[i][2] # track.track_id
    /\ \A k \in 1..Len(steps[1].tracks) :
           steps[1].tracks[k].track_id # track.track_id
           => RLt(Overlap(n, steps[1].tracks[k]), Overlap(n, track))

\* A history after a detection that may carry a sample for it
Resumed(history, face, key, sample, capacity) ==
    IF key \in DOMAIN face
    THEN LastN(Append(history, sample), capacity)
    ELSE history

C16_FirstKeepsTheSlot ==
    frame_count >= 1
    => /\ issued = {0}
       /\ Returned
          => /\ Len(updated_faces) = 2
             /\ IsTracked(1) /\ updated_faces[1].track_id = 0
             /\ updated_faces[1].bbox = faces[1].bbox
             /\ updated_faces[2] = faces[2]

\* The third frame in a row: the first detection is on the track created in
\* the first frame, the second is untracked
C16_Witness ==
    /\ Returned
    /\ max_tracks = 1
    /\ frame_count >= 3
    /\ IsTracked(1) /\ updated_faces[1].track_age = frame_count - 1
    /\ ~IsTracked(2)

\* C17 as stated (ages 20, 22, 24 with confidence 1.0, max_age_history = 10):
\* the age returned by every call is strictly between 20 and 24, and greater
\* than the age returned by the call before.
C17_StrictCall ==
    /\ 200 < updated_faces'[1].age /\ updated_faces'[1].age < 240
    /\ frame_count >= 1 => updated_faces'[1].age > updated_faces[1].age

C17_StrictlyBetween == [][C17_StrictCall]_vars

\* C17, amended: the first call returns 20.0, the age of its only sample; the
\* second and the third return 21.1 and 22.1, strictly between 20 and 24, and
\* each call returns more than the call before.
C17_Call ==
    /\ frame_count = 0 => updated_faces'[1].age = 200
    /\ frame_count >= 1
       => /\ 200 < updated_faces'[1].age /\ updated_faces'[1].age < 240
          /\ updated_faces'[1].age > updated_faces[1].age
    /\ frame_count = 1 => updated_faces'[1].age = 211
    /\ frame_count = 2 => updated_faces'[1].age = 221

C17_SmoothedAges == [][C17_Call]_vars

\* The third call returned, its face on the track created by the first call
\* with the three samples in its history
C17_Witness ==
    /\ Returned
    /\ frame_count = 3
    /\ updated_faces[1].track_age = 2
    /\ Len(tracks[1].age_history) = 3
    /\ updated_faces[1].age = 221

\* The positions in the registry, as the last call found it, of the tracks
\* that detection n overlaps above the threshold
Own(n) ==
    {k \in 1..Len(steps[1].tracks) :
        RLt(iou_threshold, Overlap(n, steps[1].tracks[k]))}

\* Every detection of the last call overlaps one track above the threshold
\* and every other track not at all, and no two detections the same track
DisjointFaces ==
    /\ \A n \in 1..Len(faces) :
           /\ Cardinality(Own(n)) = 1
           /\ \A k \in 1..Len(steps[1].tracks) :
                  k \notin Own(n) => Overlap(n, steps[1].tracks[k]) = Zero
    /\ \A i, j \in 1..Len(faces) : i # j => Own(i) # Own(j)

\* C18 (stable identities for disjoint faces): when every detection of a
\* frame overlaps only the last_bbox of its own track, every detection is
\* matched to that track, wherever it stands in the input list.
C18_StableIdentities ==
    DisjointFaces
    => \A n \in 1..Len(faces) :
           \A k \in Own(n) :
               /\ matches[n][2] = steps[1].tracks[k].track_id
               /\ Returned
                  => updated_faces[n].track_id = steps[1].tracks[k].track_id

\* Two disjoint faces arrived in the reverse of the order of their tracks
C18_Witness ==
    /\ Returned
    /\ Len(faces) = 2
    /\ DisjointFaces
    /\ Own(1) = {2} /\ Own(2) = {1}
    /\ updated_faces[1].track_id = steps[1].tracks[2].track_id
    /\ updated_faces[2].track_id = steps[1].tracks[1].track_id

\* The positions in the registry, as the last call found it, of the tracks
\* that no detection before detection n was matched to
Available(n) ==
    {k \in 1..Len(steps[1].tracks) :
        \A i \in 1..(n - 1) : matches[i][2] # steps[1].tracks[k].track_id}

\* Those of them that detection n overlaps the most
Best(n) ==
    {k \in Available(n) :
        \A j \in Available(n) :
            ~RLt(Overlap(n, steps[1].tracks[k]), Overlap(n, steps[1].tracks[j]))}

\* C19 (greedy matching rule): match_faces_to_tracks pairs the detections in
\* input order; detection n is matched if and only if the largest overlap it
\* has with a track not matched to an earlier detection is strictly greater
\* than iou_threshold, and then to a track of that largest overlap.
C19_GreedyRule ==
    /\ exc = "None" => Len(matches) = Len(faces)
    /\ \A n \in 1..Len(matches) :
           /\ matches[n][1] = n - 1
           /\ matches[n][2] # None
              <=> \E k \in Best(n) :
                      RLt(iou_threshold, Overlap(n, steps[1].tracks[k]))
           /\ matches[n][2] # None
              => \E k \in Best(n) :
                     matches[n][2] = steps[1].tracks[k].track_id

\* The second detection overlaps the track matched to the first more than
\* the first does, and is not matched to it
C19_Witness ==
    /\ Len(matches) = 2
    /\ matches[1][2] # None
    /\ matches[2][2] # matches[1][2]
    /\ RLt(Overlap(1, TrackOf(steps[1].tracks, matches[1][2])),
           Overlap(2, TrackOf(steps[1].tracks, matches[1][2])))

\* C20 (tie-breaking): a detection that has its largest overlap with several
\* unclaimed tracks is matched to the first of them in the registry, whose
\* order is the order of creation, so to the one of smallest track_id.
C20_FirstOfTies ==
    /\ \A m \in 1..Len(steps) :
           \A i, j \in 1..Len(steps[m].tracks) :
               i < j
               => /\ steps[m].tracks[i].track_id < steps[m].tracks[j].track_id
                  /\ steps[m].tracks[i].created_frame
                         <= steps[m].tracks[j].created_frame
    /\ \A n \in 1..Len(matches) :
           matches[n][2] # None
           => /\ \E k \in Best(n) :
                     /\ matches[n][2] = steps[1].tracks[k].track_id
                     /\ \A j \in Best(n) : k <= j
              /\ \A j \in Best(n) :
                     matches[n][2] <= steps[1].tracks[j].track_id

\* A detection overlapping two tracks equally, above the default threshold,
\* was matched to the older one
C20_Witness ==
    /\ iou_threshold = Rat(3, 10)
    /\ \E n \in 1..Len(matches) :
           /\ Cardinality(Best(n)) = 2
           /\ matches[n][2] # None
           /\ matches[n][2] = steps[1].tracks[1].track_id

---------------------------------------------------------------------------
\* C21 (match_faces_to_tracks): a call on its own returns one pair
\* (i, track_id or None) per detection, i running 0..n-1 in input order, every
\* track_id a key of the registry; the result is empty for an empty list and
\* all None for an empty registry; tracks, next_track_id and frame_count are
\* left as they were.
C21_Call ==
    (\E fs \in MatchFrames : MatchCall(fs)) =>
        /\ UNCHANGED tracker_vars
        /\ Len(matches') = Len(faces')
        /\ \A n \in 1..Len(matches') :
               /\ matches'[n][1] = n - 1
               /\ matches'[n][2] \in KeySet(tracks) \cup {None}
               /\ tracks = <<>> => matches'[n][2] = None
        /\ faces' = <<>> => matches' = <<>>

C21_MatchEffect == [][C21_Call]_vars

\* A call on its own matched the first of two detections and not the second
C21_Witness ==
    /\ steps = <<>>
    /\ tracks # <<>>
    /\ Len(faces) = 2
    /\ Len(matches) = 2
    /\ matches[1][2] # None
    /\ matches[2][2] = None

\* The weight of a sample in the current frame as the aggregate is specified:
\* confidence * (1 - (frame_count - frame) / capacity)
SpecifiedWeight(sample, capacity) ==
    RMul(sample.confidence,
         RSub(One, Rat(frame_count - sample.frame, capacity)))

\* The weighted mean of the ages of a sequence of samples
WeightedMeanAge(samples, capacity) ==
    RDiv(Sum([k \in 1..Len(samples) |->
                 RMul(FromInt(samples[k].age),
                      SpecifiedWeight(samples[k], capacity))]),
         Sum([k \in 1..Len(samples) |->
                 SpecifiedWeight(samples[k], capacity)]))

\* The total of the specified weights of a sequence of samples
SpecifiedTotal(samples, capacity) ==
    Sum([k \in 1..Len(samples) |-> SpecifiedWeight(samples[k], capacity)])

\* C22 (age aggregate): the age_history of a track holds the last
\* max_age_history samples that arrived for it, with the ages as they were in
\* the detections; when their total weight is positive, the age returned for a
\* detection is their weighted mean, with weights
\* confidence * (1 - (frame_count - frame) / max_age_history), rounded to one
\* decimal by update_tracks.
C22_AgeAggregate ==
    \A n \in 1..(Len(steps) - 1) :
        (TrackAt(LastCall, n) # None /\ "age" \in DOMAIN faces[n])
        => LET track_id == TrackAt(LastCall, n)
               retained == LastN(age_arrivals[track_id], max_age_history)
           IN  /\ TrackOf(steps[n + 1].tracks, track_id).age_history = retained
               /\ retained[Len(retained)].age = faces[n].age
               /\ (Returned
                   /\ RLt(Zero, SpecifiedTotal(retained, max_age_history)))
                  => updated_faces[n].age =
                         Round1(WeightedMeanAge(retained, max_age_history))

\* The third sample of a track has pushed the first out of a full history,
\* and the age returned is none of the two retained ages
C22_Witness ==
    /\ Returned
    /\ Len(faces) = 1 /\ "age" \in DOMAIN faces[1] /\ IsTracked(1)
    /\ LET track_id == updated_faces[1].track_id
           history == TrackOf(tracks, track_id).age_history
       IN  /\ Len(age_arrivals[track_id]) = 3
           /\ Len(history) = 2
           /\ history[1].age # history[2].age
           /\ updated_faces[1].age \notin {history[1].age, history[2].age}

\* C23 (non-negative weights): when a detection with an age or with emotions
\* is smoothed by a call that returns, no sample retained in the history of its
\* track is given a negative weight by lines 160-161 and 211-212.
C23_NonNegativeWeights ==
    \A n \in 1..(Len(steps) - 1) :
        (Returned /\ TrackAt(LastCall, n) # None)
        => LET track == TrackOf(steps[n + 1].tracks, TrackAt(LastCall, n))
           IN  /\ "age" \in DOMAIN faces[n]
                  => \A k \in 1..Len(track.age_history) :
                         ~RLt(Weight(track.age_history[k], frame_count,
                                     max_age_history), Zero)
               /\ "emotions" \in DOMAIN faces[n]
                  => \A k \in 1..Len(track.emotion_history) :
                         ~RLt(Weight(track.emotion_history[k], frame_count,
                                     max_emotion_history), Zero)

\* a <= b for rationals
RLe(a, b) == ~RLt(b, a)

\* The label of emotion_names that comes first among those of the largest
\* value in an emotion dict
FirstLargest(d) ==
    emotion_names[
        CHOOSE i \in 1..Len(emotion_names) :
            /\ HasKey(d, emotion_names[i])
            /\ \A n \in 1..Len(d) :
                   RLe(d[n][2], ValueOf(d, emotion_names[i]))
            /\ \A j \in 1..(i - 1) :
                   HasKey(d, emotion_names[j])
                   => RLt(ValueOf(d, emotion_names[j]),
                          ValueOf(d, emotion_names[i]))]

\* C24 (emotion aggregate): smooth_emotion_prediction returns for every
\* detection with emotions on a track; the dominant emotion it returns is the
\* label with the largest value of the smoothed map, the first in the order of
\* emotion_names on a tie, and the confidence is the value of that entry.
C24_DominantIsArgmax ==
    \A n \in 1..(Len(steps) - 1) :
        (TrackAt(LastCall, n) # None /\ "emotions" \in DOMAIN faces[n])
        => /\ ~Raised(n)
           /\ Returned
              => /\ updated_faces[n].dominant_emotion
                        = FirstLargest(updated_faces[n].emotions)
                 /\ updated_faces[n].emotion_confidence
                        = ValueOf(updated_faces[n].emotions,
                                  FirstLargest(updated_faces[n].emotions))

\* C28 (smoothed age stays inside the data): the age returned for a detection
\* on a track is between the smallest and the largest age of the track's
\* retained age_history, and the age confidence returned is between the
\* smallest and the largest retained confidence.
C28_AgeInsideData ==
    \A n \in 1..(Len(steps) - 1) :
        (Returned /\ TrackAt(LastCall, n) # None /\ "age" \in DOMAIN faces[n])
        => LET history ==
                   TrackOf(steps[n + 1].tracks, TrackAt(LastCall, n)).age_history
           IN  /\ \E k \in 1..Len(history) :
                      history[k].age <= updated_faces[n].age
               /\ \E k \in 1..Len(history) :
                      updated_faces[n].age <= history[k].age
               /\ \E k \in 1..Len(history) :
                      RLe(history[k].confidence,
                          updated_faces[n].age_confidence)
               /\ \E k \in 1..Len(history) :
                      RLe(updated_faces[n].age_confidence,
                          history[k].confidence)

\* Every value of an emotion dict is in [0, 1]
Probabilities(d) ==
    \A n \in 1..Len(d) : RLe(Zero, d[n][2]) /\ RLe(d[n][2], One)

\* C29 (emotion outputs stay in range): the detections carry emotion
\* probabilities and an emotion_confidence in [0, 1]; every value of the
\* emotions map returned for a detection on a track and the emotion_confidence
\* returned are in [0, 1], and the dominant_emotion returned is one of the
\* labels of emotion_names.
C29_EmotionsInRange ==
    \A n \in 1..(Len(steps) - 1) :
        (Returned /\ TrackAt(LastCall, n) # None
         /\ "emotions" \in DOMAIN faces[n])
        => /\ Probabilities(faces[n].emotions)
           /\ RLe(Zero, faces[n].emotion_confidence)
           /\ RLe(faces[n].emotion_confidence, One)
           /\ Probabilities(updated_faces[n].emotions)
           /\ RLe(Zero, updated_faces[n].emotion_confidence)
           /\ RLe(updated_faces[n].emotion_confidence, One)
           /\ \E i \in 1..Len(emotion_names) :
                  updated_faces[n].dominant_emotion = emotion_names[i]

\* C25 (track update step): after each call, the track assigned to a detection
\* has that detection's bbox as last_bbox and the current frame number as
\* last_seen and is still in the registry, and the detection is returned with
\* track_age = frame_count - created_frame, which is 0 on a track created in
\* this frame; a face with a stationary box seen in frames 1..5 is returned in
\* frame 5 with track_age 4 and the track_id it was given in frame 1.
C25_TrackUpdate ==
    /\ \A n \in 1..(Len(steps) - 1) :
           TrackAt(LastCall, n) # None
           => LET track_id == TrackAt(LastCall, n)
                  track == TrackOf(steps[n + 1].tracks, track_id)
              IN  /\ track.last_bbox = Get(faces[n], "bbox", DefaultBox)
                  /\ track.last_seen = frame_count
                  /\ track_id \in KeySet(tracks)
                  /\ TrackOf(tracks, track_id).last_bbox = track.last_bbox
                  /\ TrackOf(tracks, track_id).last_seen = frame_count
                  /\ Returned
                     => /\ updated_faces[n].track_id = track_id
                        /\ updated_faces[n].track_age
                               = frame_count - track.created_frame
                        /\ track_id \in CreatedAt(steps, n)
                           => updated_faces[n].track_age = 0
    /\ (Returned /\ frame_count >= 1)
       => /\ updated_faces[1].track_id = 0
          /\ updated_faces[1].track_age = frame_count - 1
          /\ frame_count = 5 => updated_faces[1].track_age = 4

\* The fifth frame in a row with the face at the same place
C25_Witness ==
    /\ Returned
    /\ frame_count = 5
    /\ IsTracked(1)
    /\ updated_faces[1].track_id = 0
    /\ updated_faces[1].track_age = 4
    /\ TrackOf(tracks, 0).created_frame = 1
    /\ TrackOf(tracks, 0).last_seen = 5

\* C26 (staleness invariant): after a call that returned, every track of the
\* registry has frame_count - last_seen <= max_missing_frames; the tracks that
\* the call removed are tracks for which frame_count - last_seen >
\* max_missing_frames held at the end of its loop, the others are kept in
\* their order, and a track matched in the current frame is kept.  A call that
\* raised removed nothing.
C26_Staleness ==
    Len(steps) > 0
    => LET at_end == steps[Len(steps)].tracks
       IN  /\ max_missing_frames >= 0
           /\ Returned
              => \A k \in 1..Len(tracks) :
                     frame_count - tracks[k].last_seen <= max_missing_frames
           /\ \A k \in 1..Len(at_end) :
                  /\ at_end[k].track_id \notin KeySet(tracks)
                     => /\ Returned
                        /\ frame_count - at_end[k].last_seen
                               > max_missing_frames
                  /\ at_end[k].last_seen = frame_count
                     => at_end[k].track_id \in KeySet(tracks)
           /\ tracks = SelectSeq(at_end,
                                 LAMBDA track :
                                     track.track_id \in KeySet(tracks))

\* Of two tracks that went unmatched, the call removed the one last seen two
\* frames ago and kept the one last seen in the frame before
C26_Witness ==
    /\ Returned
    /\ max_missing_frames = 1
    /\ Len(steps) > 0
    /\ Len(steps[Len(steps)].tracks) = 2
    /\ Len(tracks) = 1
    /\ frame_count - tracks[1].last_seen = 1
    /\ \E k \in 1..2 :
           frame_count - steps[Len(steps)].tracks[k].last_seen = 2

\* The last call had a single detection that overlapped no track of the
\* registry, which was full when the call began
RejectedNewcomer ==
    /\ Len(faces) = 1
    /\ Len(steps) > 0
    /\ Len(steps[1].tracks) = max_tracks
    /\ \A k \in 1..Len(steps[1].tracks) :
           Overlap(1, steps[1].tracks[k]) = Zero

\* The next call has the same single detection
SameNewcomer == faces' = faces /\ frame_count' = frame_count + 1

\* The frame in which the least recently matched track of a registry was last
\* matched
Oldest(trks) ==
    CHOOSE f \in {trks[k].last_seen : k \in 1..Len(trks)} :
        \A k \in 1..Len(trks) : f <= trks[k].last_seen

\* C30 as stated, for a track last matched in the frame before the last call
\* (F = frame_count - 1, the detection is there in frames F+1 and F+2): the
\* detection is returned untracked in frame F+2 when F+2 <= F +
\* max_missing_frames + 1, and with a track_id when F+2 = F +
\* max_missing_frames + 2.
C30_AsStatedCall ==
    (RejectedNewcomer /\ SameNewcomer)
    => \A k \in 1..Len(steps[1].tracks) :
           steps[1].tracks[k].last_seen = frame_count - 1
           => /\ ~IsTracked(1)
              /\ max_missing_frames >= 1
                 => "track_id" \notin DOMAIN updated_faces'[1]
              /\ max_missing_frames = 0
                 => "track_id" \in DOMAIN updated_faces'[1]

C30_AnyTrack == [][C30_AsStatedCall]_vars

\* C30, amended: F is the frame in which the least recently matched track of
\* the full registry was last matched.  A single detection that overlaps no
\* live track and finds the registry full is returned untracked, in a frame
\* of F+1 .. F+max_missing_frames+1; in the next frame it is returned
\* untracked again if that frame is still one of those, and with a new
\* track_id if that frame is F+max_missing_frames+2.
C30_Call ==
    (RejectedNewcomer /\ SameNewcomer)
    => LET F == Oldest(steps[1].tracks)
       IN  /\ ~IsTracked(1)
           /\ F + 1 <= frame_count
           /\ frame_count <= F + max_missing_frames + 1
           /\ frame_count + 1 <= F + max_missing_frames + 1
              => /\ "track_id" \notin DOMAIN updated_faces'[1]
                 /\ next_track_id' = next_track_id
                 /\ frame_count + 1 < F + max_missing_frames + 1
                    => tracks' = tracks
                 /\ frame_count + 1 = F + max_missing_frames + 1
                    => Len(tracks') < max_tracks
           /\ frame_count + 1 = F + max_missing_frames + 2
              => /\ "track_id" \in DOMAIN updated_faces'[1]
                 /\ updated_faces'[1].track_id = next_track_id
                 /\ updated_faces'[1].track_id \notin issued
                 /\ Len(tracks) < max_tracks

C30_StaleKeepsSlot == [][C30_Call]_vars

\* The frame that evicts the stale track: under max_missing_frames = 1 the
\* registry was full at the start of frame F+2, the detection was returned
\* untracked, and the track last matched at F was removed at the end
C30_Witness ==
    /\ RejectedNewcomer
    /\ Returned
    /\ max_missing_frames = 1
    /\ ~IsTracked(1)
    /\ frame_count = Oldest(steps[1].tracks) + 2
    /\ Len(tracks) < Len(steps[1].tracks)

\* C27 (every call is a frame): every update_tracks call, returning or not,
\* adds exactly 1 to frame_count; a call with an empty list returns the empty
\* list, leaves next_track_id as it was, and leaves in the registry, as they
\* were and in their order, exactly the tracks with
\* frame_count - last_seen <= max_missing_frames for the new frame_count.
C27_Call ==
    /\ frame_count' = frame_count + 1
    /\ faces' = <<>>
       => /\ exc' = "None"
          /\ updated_faces' = <<>>
          /\ next_track_id' = next_track_id
          /\ tracks' =
                 SelectSeq(tracks,
                           LAMBDA track :
                               frame_count + 1 - track.last_seen
                                   <= max_missing_frames)

C27_EveryCallIsAFrame == [][C27_Call]_vars

\* A call with an empty list removed one of two tracks and kept the other,
\* which holds samples
C27_Witness ==
    /\ frame_count >= 2
    /\ faces = <<>>
    /\ Returned
    /\ Len(steps) = 1
    /\ Len(steps[1].tracks) = 2
    /\ Len(tracks) = 1
    /\ tracks[1].age_history # <<>>
    /\ tracks[1].emotion_history # <<>>

===========================================================================
